---- MODULE Spec2Model ----
(***************************************************************************)
(* Model of the paginated fetch of the github_issue_comment table          *)
(* (tableGitHubRepositoryIssueCommentList in                               *)
(* github/table_github_issue_comment.go).                                  *)
(*                                                                         *)
(* The hydrate function builds the GraphQL variables once, then loops:     *)
(* one client.Query per iteration, every node of the returned page is      *)
(* passed to d.StreamListItem, d.RowsRemaining is consulted after each     *)
(* node, and the loop ends on a remote error, on RowsRemaining = 0 or on   *)
(* a page whose PageInfo.HasNextPage is false.                             *)
(*                                                                         *)
(* The remote API, the consumer's row budget and the cancellation of the   *)
(* context are the environment: every remote call may fail or return any   *)
(* page, and the context may be cancelled at any moment before the return. *)
(***************************************************************************)
EXTENDS Integers, Sequences, FiniteSets, TLC

\* ---------------------------------------------------------------- bounds
\* Remote calls recorded in one fetch.
MaxCalls == 3
\* Nodes in one page of the remote API.
MaxPageLen == 2
\* Distinct Records the remote API can return.
NumRecords == 2
\* Nodes the remote API returns in all the recorded pages of one fetch.
MaxFetched == 3

\* ------------------------------------------------------------- constants
\* First argument of adjustPageSize at line 62: GitHub's page maximum.
MaxPageSize == 100
\* Value the SDK reports for RowsRemaining when the query has no limit.
Unlimited == 2147483647

\* ------------------------------------------------------------ data types
\* A Go pointer is a sequence of length at most one: <<>> is nil.
NilPtr == <<>>
PtrTo(v) == <<v>>
IsNil(p) == Len(p) = 0
Deref(p) == p[1]

Records == 1 .. NumRecords
\* PageInfo.EndCursor is a githubv4.String; "" is what a null decodes to.
Cursors == {"", "c1"}
\* Errors client.Query can return.
Errors == {"api_error", "404"}
\* d.QueryContext.Limit is a *int64: nil when the query has no LIMIT.
Limits == {NilPtr} \cup {PtrTo(n) : n \in {-1, 0, 1, 2, 101}}

RECURSIVE SeqsUpTo(_, _)
SeqsUpTo(S, n) ==
    IF n = 0 THEN {<<>>}
    ELSE LET shorter == SeqsUpTo(S, n - 1)
         IN  shorter \cup {Append(s, x) : s \in {t \in shorter : Len(t) = n - 1}, x \in S}

\* The part of the query struct (lines 64-75) the loop reads.
Pages == [nodes : SeqsUpTo(Records, MaxPageLen),
          hasNextPage : BOOLEAN,
          endCursor : Cursors]

\* The zero value of the query struct before the first call.
ZeroQuery == [nodes |-> <<>>, hasNextPage |-> FALSE, endCursor |-> ""]

VARIABLES
    pc,             \* position in the function: query, range, check, pageinfo, done
    limit,          \* d.QueryContext.Limit
    variables,      \* the GraphQL variables map (pageSize, cursor)
    query,          \* the query struct filled by the last successful call
    idx,            \* position of the range loop in query...Nodes
    rowsRemaining,  \* the consumer's row budget
    cancelled,      \* ctx has been cancelled
    ret,            \* the returned error: "pending", "nil" or an error
    reason,         \* why the loop ended: none, error, stop, exhausted
    trace,          \* whether the histories below are recorded
    calls,          \* history: the variables of every remote call
    responses,      \* history: the outcome of every remote call
    streamed,       \* history: the Records passed to StreamListItem
    reqs            \* the invocations of the fetch that run side by side

vars == <<pc, limit, variables, query, idx, rowsRemaining, cancelled, ret,
          reason, trace, calls, responses, streamed, reqs>>

\* ----------------------------------------------------- helper operators
Min(a, b) == IF a < b THEN a ELSE b
Max(a, b) == IF a > b THEN a ELSE b

\* adjustPageSize(pageSize, limit): the page size clamped to the maximum,
\* to the row limit when it is known and smaller, and to at least 1.
adjustPageSize(pageSize, lim) ==
    IF IsNil(lim) THEN pageSize
    ELSE Max(1, Min(pageSize, Deref(lim)))

\* parseRepoFullName(fullName): the owner and the repository name of a full
\* name "owner/name", here the sequence of its segments between slashes.
parseRepoFullName(fullName) ==
    [owner |-> fullName[1],
     repoName |-> IF Len(fullName) > 1 THEN fullName[2] ELSE ""]

\* d.EqualsQuals (lines 57-59): the key columns of the query.
Quals == [repository_full_name |-> <<"turbot", "steampipe">>, number |-> 1]

\* Lines 57-83: the variables of the first call for given quals and limit.
VariablesFor(quals, lim) ==
    [owner |-> parseRepoFullName(quals.repository_full_name).owner,
     name |-> parseRepoFullName(quals.repository_full_name).repoName,
     issueNumber |-> quals.number,
     pageSize |-> adjustPageSize(MaxPageSize, lim),
     cursor |-> NilPtr]

\* Mutant: the row limit is forwarded verbatim as the page size.
InitialVariablesRawLimit(lim) ==
    [VariablesFor(Quals, lim) EXCEPT
        !.pageSize = IF IsNil(lim) THEN MaxPageSize ELSE Deref(lim)]

\* Lines 57-83: the variables of the first call of the fetch.
InitialVariables(lim) == VariablesFor(Quals, lim)

\* The row budget the consumer starts with for a given limit.
InitialRowsRemaining(lim) ==
    IF IsNil(lim) THEN Unlimited ELSE Max(0, Deref(lim))

\* d.RowsRemaining(ctx): 0 when the context is cancelled or the limit has
\* been hit (comment at line 97).
RowsRemaining == IF cancelled THEN 0 ELSE rowsRemaining

\* The budget after d.StreamListItem has taken one row.
AfterStream(r) == IF r = Unlimited \/ r = 0 THEN r ELSE r - 1

\* Histories are recorded only when trace is set.
Record(h, x) == IF trace THEN Append(h, x) ELSE h

\* Mutant: the loop always emits the first node of the page.
EmittedItemFirst(q, i) == q.nodes[1]

\* Line 94-95: the node the range loop passes to d.StreamListItem.
EmittedItem(q, i) == q.nodes[i]

\* Mutant: the early-exit test is never true.
ShouldStopNever(remaining) == FALSE

\* Line 98: the early-exit test on d.RowsRemaining(ctx).
ShouldStop(remaining) == remaining = 0

\* Mutant: the remote error is swallowed.
ErrorResultNil(e) == "nil"

\* Line 91: the error returned when client.Query fails.
ErrorResult(e) == e

\* Mutant: the loop goes on after the last page.
LoopEndsNever(q) == FALSE

\* Line 103: the test that ends the loop.
LoopEnds(q) == ~q.hasNextPage

\* Mutant: the cursor of the previous call is kept.
NextCursorStale(v, q) == v.cursor

\* Line 106: the cursor of the next call.
NextCursor(v, q) == PtrTo(q.endCursor)

\* ------------------------------------------------- operators on histories
RECURSIVE ConcatNodes(_)
\* The nodes of the recorded pages, in page order then intra-page order.
ConcatNodes(rs) ==
    IF Len(rs) = 0 THEN <<>>
    ELSE (IF rs[1].ok THEN rs[1].page.nodes ELSE <<>>) \o ConcatNodes(Tail(rs))

Fetched == ConcatNodes(responses)

IsPrefix(s, t) == Len(s) <= Len(t) /\ SubSeq(t, 1, Len(s)) = s

NoDuplicates(s) == \A i, j \in 1 .. Len(s) : s[i] = s[j] => i = j

\* Some recorded remote call failed.
SomeCallFailed == \E n \in 1 .. Len(responses) : ~responses[n].ok

\* ------------------------------------------------------------------ Init
\* The state at line 86, before the first iteration of the loop.
InitWith(tr) ==
    /\ limit \in Limits
    /\ variables = InitialVariables(limit)
    /\ query = ZeroQuery
    /\ idx = 1
    /\ rowsRemaining = InitialRowsRemaining(limit)
    /\ cancelled = FALSE
    /\ pc = "query"
    /\ ret = "pending"
    /\ reason = "none"
    /\ trace = tr
    /\ calls = <<>>
    /\ responses = <<>>
    /\ streamed = <<>>
    /\ reqs = <<>>

Init == InitWith(TRUE)

\* --------------------------------------------------------------- actions
\* A remote call may be issued (the recorded histories are bounded).
CanCall == trace => Len(calls) < MaxCalls

\* The remote API may return page p (the recorded histories are bounded).
CanReturn(p) == trace => Len(Fetched) + Len(p.nodes) <= MaxFetched

\* Lines 87-89, err = nil: the call returns page p.
QueryOk(p) ==
    /\ pc = "query"
    /\ CanCall
    /\ CanReturn(p)
    /\ query' = p
    /\ idx' = 1
    /\ pc' = "range"
    /\ calls' = Record(calls, variables)
    /\ responses' = Record(responses, [ok |-> TRUE, page |-> p, err |-> "nil"])
    /\ UNCHANGED <<reqs, limit, variables, rowsRemaining, cancelled, ret, reason,
                   trace, streamed>>

\* Lines 87-92, err != nil: the call fails with e and the function returns.
QueryErr(e) ==
    /\ pc = "query"
    /\ CanCall
    /\ ret' = ErrorResult(e)
    /\ reason' = "error"
    /\ pc' = "done"
    /\ calls' = Record(calls, variables)
    /\ responses' = Record(responses, [ok |-> FALSE, page |-> ZeroQuery, err |-> e])
    /\ UNCHANGED <<reqs, limit, variables, query, idx, rowsRemaining, cancelled,
                   trace, streamed>>

\* Lines 94-95: the next node of the page goes to d.StreamListItem.
StreamItem ==
    /\ pc = "range"
    /\ idx <= Len(query.nodes)
    /\ streamed' = Record(streamed, EmittedItem(query, idx))
    /\ rowsRemaining' = AfterStream(rowsRemaining)
    /\ pc' = "check"
    /\ UNCHANGED <<reqs, limit, variables, query, idx, cancelled, ret, reason,
                   trace, calls, responses>>

\* Lines 98-100: the early exit after an emitted node.
CheckRows ==
    /\ pc = "check"
    /\ IF ShouldStop(RowsRemaining)
       THEN /\ ret' = "nil"
            /\ reason' = "stop"
            /\ pc' = "done"
            /\ idx' = idx
       ELSE /\ idx' = idx + 1
            /\ pc' = "range"
            /\ UNCHANGED <<ret, reason>>
    /\ UNCHANGED <<reqs, limit, variables, query, rowsRemaining, cancelled, trace,
                   calls, responses, streamed>>

\* Mutant: the loop leaves the page before all its nodes are streamed.
PageInfoEarly ==
    /\ pc = "range"
    /\ IF LoopEnds(query)
       THEN /\ ret' = "nil"
            /\ reason' = "exhausted"
            /\ pc' = "done"
            /\ variables' = variables
       ELSE /\ variables' = [variables EXCEPT !.cursor = NextCursor(variables, query)]
            /\ pc' = "query"
            /\ UNCHANGED <<ret, reason>>
    /\ UNCHANGED <<reqs, limit, query, idx, rowsRemaining, cancelled, trace, calls,
                   responses, streamed>>

\* Mutant: the page size is clamped again to the rows that remain.
PageInfoReclamp ==
    /\ pc = "range"
    /\ idx > Len(query.nodes)
    /\ IF LoopEnds(query)
       THEN /\ ret' = "nil"
            /\ reason' = "exhausted"
            /\ pc' = "done"
            /\ variables' = variables
       ELSE /\ variables' = [variables EXCEPT
                                !.cursor = NextCursor(variables, query),
                                !.pageSize = adjustPageSize(@, PtrTo(RowsRemaining))]
            /\ pc' = "query"
            /\ UNCHANGED <<ret, reason>>
    /\ UNCHANGED <<reqs, limit, query, idx, rowsRemaining, cancelled, trace, calls,
                   responses, streamed>>

\* Mutant: the stop signal is also consulted after the page.
PageInfoChecksStop ==
    /\ pc = "range"
    /\ idx > Len(query.nodes)
    /\ IF ShouldStop(RowsRemaining)
       THEN /\ ret' = "nil"
            /\ reason' = "stop"
            /\ pc' = "done"
            /\ variables' = variables
       ELSE IF LoopEnds(query)
       THEN /\ ret' = "nil"
            /\ reason' = "exhausted"
            /\ pc' = "done"
            /\ variables' = variables
       ELSE /\ variables' = [variables EXCEPT !.cursor = NextCursor(variables, query)]
            /\ pc' = "query"
            /\ UNCHANGED <<ret, reason>>
    /\ UNCHANGED <<reqs, limit, query, idx, rowsRemaining, cancelled, trace, calls,
                   responses, streamed>>

\* Lines 103-109: after the last node, break or move the cursor on.
PageInfo ==
    /\ pc = "range"
    /\ idx > Len(query.nodes)
    /\ IF LoopEnds(query)
       THEN /\ ret' = "nil"
            /\ reason' = "exhausted"
            /\ pc' = "done"
            /\ variables' = variables
       ELSE /\ variables' = [variables EXCEPT !.cursor = NextCursor(variables, query)]
            /\ pc' = "query"
            /\ UNCHANGED <<ret, reason>>
    /\ UNCHANGED <<reqs, limit, query, idx, rowsRemaining, cancelled, trace, calls,
                   responses, streamed>>

\* The surrounding context is cancelled while the fetch is in progress.
Cancel ==
    /\ pc # "done"
    /\ ~cancelled
    /\ cancelled' = TRUE
    /\ UNCHANGED <<reqs, pc, limit, variables, query, idx, rowsRemaining, ret,
                   reason, trace, calls, responses, streamed>>

\* The steps of the fetch itself.
Fetch ==
    \/ \E p \in Pages : QueryOk(p)
    \/ \E e \in Errors : QueryErr(e)
    \/ StreamItem
    \/ CheckRows
    \/ PageInfo

Next == Fetch \/ Cancel

Spec == Init /\ [][Next]_vars

\* The fetch without recorded histories: remote calls are unbounded, and the
\* goroutine running the fetch keeps taking steps.
LiveInit == InitWith(FALSE)

LiveSpec == LiveInit /\ [][Next]_vars /\ WF_vars(Fetch)

TypeOK ==
    /\ pc \in {"query", "range", "check", "done"}
    /\ limit \in Limits
    /\ query \in Pages
    /\ idx \in 1 .. MaxPageLen + 1
    /\ rowsRemaining \in 0 .. Unlimited
    /\ cancelled \in BOOLEAN
    /\ ret \in {"pending", "nil"} \cup Errors
    /\ reason \in {"none", "error", "stop", "exhausted"}

\* ----------------------------------------------------------------- claims

\* C1: the Records passed to the consumer are always a prefix of the
\* concatenation of the fetched pages' nodes (page order, then intra-page
\* order); the prefix is proper at the return only when the consumer
\* stopped the fetch, so a fetch that ends by exhaustion, and one that ends
\* on a remote error, has streamed every node of every fetched page.
C1_StreamedIsPrefixOfPages ==
    /\ IsPrefix(streamed, Fetched)
    /\ (pc = "done" /\ reason # "stop") => streamed = Fetched
    /\ (pc = "query") => streamed = Fetched

C1_Witness ==
    /\ pc = "done"
    /\ reason = "exhausted"
    /\ Len(responses) = 3
    /\ Len(responses[1].page.nodes) = 2
    /\ Len(responses[2].page.nodes) = 1
    /\ Len(responses[3].page.nodes) = 0
    /\ streamed[1] # streamed[2]
    /\ Len(streamed) = 3

\* C2: the first remote call carries a nil cursor, the call for page N+1
\* carries exactly the endCursor returned with page N, and with an unlimited
\* budget and no cancellation a fetch that returns nil made exactly as many
\* calls as it takes to reach the first page without a next page and has
\* streamed every node (two calls for P0 with a next page, P1 without).
C2_CursorChaining ==
    /\ Len(calls) = Len(responses)
    /\ Len(calls) >= 1 => IsNil(calls[1].cursor)
    /\ \A n \in 1 .. Len(calls) - 1 :
          /\ responses[n].ok
          /\ responses[n].page.hasNextPage
          /\ calls[n + 1].cursor = PtrTo(responses[n].page.endCursor)
    /\ (pc = "done" /\ ret = "nil" /\ IsNil(limit) /\ ~cancelled) =>
          /\ Len(calls) >= 1
          /\ responses[Len(calls)].ok
          /\ ~responses[Len(calls)].page.hasNextPage
          /\ streamed = Fetched

C2_Witness ==
    /\ pc = "done"
    /\ IsNil(limit)
    /\ ~cancelled
    /\ Len(calls) = 3
    /\ responses[1].page.endCursor = "c1"
    /\ responses[2].page.endCursor = ""
    /\ calls[2].cursor = PtrTo("c1")
    /\ calls[3].cursor = PtrTo("")
    /\ ret = "nil"

\* C3: a page with hasNextPage = false is the last remote call of the fetch
\* and the fetch then returns nil; if the first page has no next page,
\* exactly one remote call is made.
C3_NoCallAfterLastPage ==
    /\ \A n \in 1 .. Len(responses) :
          (responses[n].ok /\ ~responses[n].page.hasNextPage) => n = Len(responses)
    /\ (pc = "done" /\ Len(responses) >= 1
          /\ responses[Len(responses)].ok) => ret = "nil"
    /\ (pc = "query" /\ Len(responses) >= 1) =>
          responses[Len(responses)].page.hasNextPage

C3_Witness ==
    /\ pc = "done"
    /\ reason = "exhausted"
    /\ Len(calls) = 1
    /\ responses[1].ok
    /\ ~responses[1].page.hasNextPage
    /\ Len(streamed) = 2

\* C4: when RowsRemaining is 0 after an emitted Record, the next step of the
\* fetch is the return of nil: no further Record is emitted (the rest of the
\* page included) and no further remote call is issued, then or later.
C4_EarlyStop ==
    [][ /\ (pc = "check" /\ RowsRemaining = 0) =>
              /\ pc' \in {"check", "done"}
              /\ (pc' = "done" => ret' = "nil" /\ reason' = "stop")
              /\ streamed' = streamed
              /\ calls' = calls
        /\ (pc = "done") => (streamed' = streamed /\ calls' = calls /\ pc' = "done")
      ]_vars

C4_Witness ==
    /\ pc = "done"
    /\ reason = "stop"
    /\ ~cancelled
    /\ ~IsNil(limit)
    /\ Len(streamed) = Deref(limit)
    /\ idx < Len(query.nodes)
    /\ query.hasNextPage
    /\ Len(calls) = 2

\* C5: when the k-th remote call fails, every Record of pages 1..k-1 has
\* been delivered exactly once and none for the failing call, the returned
\* error is the very error of the remote call, and the failing call is the
\* last remote call.
C5_RemoteFailure ==
    \A k \in 1 .. Len(responses) :
        ~responses[k].ok =>
            /\ k = Len(responses)
            /\ pc = "done"
            /\ reason = "error"
            /\ ret = responses[k].err
            /\ streamed = ConcatNodes(SubSeq(responses, 1, k - 1))
            /\ \A n \in 1 .. k - 1 : responses[n].ok

C5_Witness ==
    /\ pc = "done"
    /\ reason = "error"
    /\ Len(calls) = 2
    /\ ~responses[2].ok
    /\ ret = "404"
    /\ Len(streamed) = 2

\* C6 as stated, at the one place where the loop looks at the cancellation
\* (the RowsRemaining test): finding the context cancelled, the fetch issues
\* no further remote call and returns an error, not nil.
C6_CancelReturnsErrorAsStated ==
    [][ (cancelled /\ pc = "check" /\ pc' = "done") =>
            /\ calls' = calls
            /\ ret' # "nil"
      ]_vars

\* C6 as amended: the loop observes a cancelled context only through the
\* RowsRemaining test that follows an emitted Record; the step after such a
\* test returns nil (not an error) with no further remote call and no
\* further Record.  After a page with no Records and hasNextPage = true the
\* cancellation is not looked at: the loop moves the cursor on and goes back
\* to the remote call.  A non-nil error is returned only for a failed call.
C6_CancelSeenAtRowCheck ==
    [][ /\ (cancelled /\ pc = "check") =>
              /\ pc' = "done"
              /\ ret' = "nil"
              /\ reason' = "stop"
              /\ calls' = calls
              /\ streamed' = streamed
        /\ (cancelled /\ pc = "range" /\ Len(query.nodes) = 0
              /\ query.hasNextPage) =>
              /\ pc' = "query"
              /\ ret' = "pending"
              /\ variables'.cursor = PtrTo(query.endCursor)
        /\ (cancelled /\ pc' = "done" /\ ret' # "nil") =>
              (pc = "query" /\ Len(calls') = Len(calls) + 1)
      ]_vars

C6_Witness ==
    /\ pc = "done"
    /\ cancelled
    /\ reason = "stop"
    /\ ret = "nil"
    /\ rowsRemaining > 0
    /\ query.hasNextPage
    /\ Len(calls) = 2
    /\ responses[1].page.nodes = <<>>

\* C7: the page size of every remote call is at least 1 and at most 100,
\* and at most the row limit when that limit is known and is between 1 and
\* 100; a limit of 0 or a negative limit is never the page size.
C7_PageSizeClamped ==
    \A n \in 1 .. Len(calls) :
        /\ calls[n].pageSize >= 1
        /\ calls[n].pageSize <= MaxPageSize
        /\ (~IsNil(limit) /\ Deref(limit) >= 1) => calls[n].pageSize <= Deref(limit)
        /\ (~IsNil(limit) /\ Deref(limit) <= 0) => calls[n].pageSize # Deref(limit)

C7_Witness ==
    /\ Len(calls) = 2
    /\ ~IsNil(limit)
    /\ Deref(limit) = 0
    /\ calls[2].pageSize = 1

\* C8: when the fetched pages are pairwise disjoint and without duplicates
\* (their concatenation has no duplicate), no Record has been passed to the
\* consumer more than once, whatever way the fetch ends.
C8_NoRecordTwice ==
    NoDuplicates(Fetched) => NoDuplicates(streamed)

C8_Witness ==
    /\ pc = "done"
    /\ Len(responses) = 2
    /\ responses[1].ok
    /\ Len(responses[1].page.nodes) = 1
    /\ responses[2].ok
    /\ Len(responses[2].page.nodes) = 1
    /\ NoDuplicates(Fetched)
    /\ Len(streamed) = 2
    /\ reason = "exhausted"

\* C9: the fetch returns a non-nil error exactly when a remote call failed;
\* the return on an exhausted row budget and the return after a page with
\* hasNextPage = false both carry a nil error.
C9_ErrorIffCallFailed ==
    pc = "done" =>
        /\ ret # "pending"
        /\ (ret # "nil") <=> SomeCallFailed
        /\ (reason \in {"stop", "exhausted"}) => ret = "nil"
        /\ (reason = "error") <=> SomeCallFailed

C9_Witness ==
    /\ pc = "done"
    /\ reason = "stop"
    /\ ~cancelled
    /\ rowsRemaining = 0
    /\ ret = "nil"
    /\ ~SomeCallFailed
    /\ Len(streamed) = 1

\* The two states of the fetch.
State == IF pc = "done" THEN "DONE" ELSE "FETCHING"

\* The last remote call returned a page without a next page.
LastPageReturned == pc \in {"range", "check"} /\ ~query.hasNextPage

\* RowsRemaining has returned 0 after an emitted Record.
StopSeen == pc = "check" /\ RowsRemaining = 0

\* The fetch starts in FETCHING; its only transition is FETCHING -> DONE,
\* taken on exactly one of exhaustion, remote error or consumer stop, and
\* in DONE nothing happens any more.
TwoStateMachine ==
    /\ State = "FETCHING"
    /\ [][ /\ State = "FETCHING"
           /\ (State' = "FETCHING") => reason' = "none"
           /\ (State' = "DONE") =>
                 /\ reason' \in {"exhausted", "error", "stop"}
                 /\ (reason' = "exhausted") <=>
                        (pc = "range" /\ idx > Len(query.nodes) /\ ~query.hasNextPage)
                 /\ (reason' = "error") <=> (pc = "query" /\ ret' \in Errors)
                 /\ (reason' = "stop") <=> StopSeen
         ]_vars

\* C10 as stated: the two-state machine, and the fetch reaches DONE once the
\* remote API has returned a page with hasNextPage = false (an error ends
\* the fetch in the same step) or once the consumer's stop signal is set.
C10_TerminatesAsStated ==
    /\ TwoStateMachine
    /\ LastPageReturned ~> (State = "DONE")
    /\ (State = "FETCHING" /\ RowsRemaining = 0) ~> (State = "DONE")

\* C10 as amended: the two-state machine, and the fetch reaches DONE once
\* the remote API has returned a page with hasNextPage = false (an error ends
\* the fetch in the same step) or once RowsRemaining has returned 0 after an
\* emitted Record.  A stop signal that is set while the remote API keeps
\* returning pages without Records is never consulted.
C10_TwoStatesAndTermination ==
    /\ TwoStateMachine
    /\ LastPageReturned ~> (State = "DONE")
    /\ StopSeen ~> (State = "DONE")

C10_Witness ==
    /\ ~trace
    /\ State = "DONE"
    /\ reason = "exhausted"
    /\ variables.cursor = PtrTo("c1")
    /\ ~IsNil(limit)
    /\ Deref(limit) = 101
    /\ rowsRemaining = 98
    /\ cancelled

\* ------------------------------------------------- the table's List config
\* isNotFoundError(codes): the predicate that holds of the errors carrying
\* one of the given not-found codes.
isNotFoundError(codes, e) == e \in codes

\* Mutant: the table has no ShouldIgnoreError policy.
ShouldIgnoreErrorNone(e) == FALSE

\* Line 49: ShouldIgnoreError of the List config.
ShouldIgnoreError(e) == isNotFoundError({"404"}, e)

\* The error the caller of the table sees for the error the hydrate function
\* returned: an ignored error ends the listing without an error.
ListError(r) == IF r \in Errors /\ ShouldIgnoreError(r) THEN "nil" ELSE r

\* C11: a fetch whose remote call fails with a not-found (404) error is seen
\* by the caller of the table as a listing without error, and as an empty
\* one when the failing call is the first (the parent scope does not
\* exist); every other remote error is surfaced as that error.
C11_NotFoundIsEmptyResult ==
    pc = "done" =>
        /\ (ret = "404") => ListError(ret) = "nil"
        /\ (ret = "404" /\ Len(calls) = 1) => streamed = <<>>
        /\ (ret \in Errors \ {"404"}) => ListError(ret) = ret
        /\ (ListError(ret) # "nil") <=> (SomeCallFailed /\ ret # "404")

C11_Witness ==
    /\ pc = "done"
    /\ Len(calls) = 1
    /\ ~responses[1].ok
    /\ responses[1].err = "404"
    /\ ret = "404"
    /\ ListError(ret) = "nil"
    /\ streamed = <<>>

\* C12: client.Query blocks, so a call and its return are one step and no
\* call is outstanding when another is issued: a step issues at most one
\* remote call, only from the head of the loop, with every earlier call
\* answered and every Record of every earlier page passed to the consumer;
\* each pass through the head of the loop issues exactly one call, and the
\* head is reached again only after the range over the page has ended.
C12_OneCallAtATime ==
    [][ /\ Len(calls') <= Len(calls) + 1
        /\ (Len(calls') = Len(calls) + 1) =>
              /\ pc = "query"
              /\ Len(responses) = Len(calls)
              /\ Len(responses') = Len(calls')
              /\ streamed = Fetched
        /\ (pc = "query" /\ pc' # "query") => Len(calls') = Len(calls) + 1
        /\ (pc # "query") => calls' = calls
        /\ (pc # "query" /\ pc' = "query") =>
              /\ pc = "range"
              /\ idx = Len(query.nodes) + 1
              /\ streamed = Fetched
      ]_vars

C12_Witness ==
    /\ pc = "range"
    /\ Len(calls) = 2
    /\ Len(responses) = 2
    /\ Len(responses[1].page.nodes) = 2
    /\ Len(streamed) = 2
    /\ idx = 1
    /\ Len(query.nodes) = 1

\* C15: RowsRemaining is consulted once after each emitted Record and
\* nowhere else: the test is reached exactly by the emission of a Record,
\* and only the test ends the fetch with a stop.  It is not consulted before
\* the first remote call, so every fetch that returns has issued a call
\* whatever the initial budget; nor after a page without Records: with
\* hasNextPage = true the loop goes back to the remote call even when the
\* budget is exhausted or the context cancelled.
C15_StopConsultedOnlyAfterRecord ==
    /\ [](pc = "done" => Len(calls) >= 1)
    /\ [][ /\ (pc # "check" /\ pc' = "check") <=> (Len(streamed') = Len(streamed) + 1)
           /\ (pc = "check" /\ pc' # "check") =>
                 /\ streamed' = streamed
                 /\ (pc' = "done") <=> (RowsRemaining = 0)
                 /\ (pc' = "range") <=> (RowsRemaining # 0)
           /\ (reason' = "stop" /\ reason # "stop") => pc = "check"
           /\ (pc = "query" /\ pc' # "query") => Len(calls') = Len(calls) + 1
           /\ (pc = "range" /\ Len(query.nodes) = 0 /\ query.hasNextPage
                 /\ pc' # "range") => (pc' = "query" /\ ret' = "pending")
         ]_vars

C15_Witness ==
    /\ Len(calls) = 3
    /\ responses[1].ok
    /\ responses[1].page.nodes = <<>>
    /\ responses[2].ok
    /\ responses[2].page.nodes = <<>>
    /\ rowsRemaining = 0
    /\ cancelled
    /\ streamed = <<>>

\* C16: every remote call carries the owner, name, issueNumber and pageSize
\* computed before the first call; a step changes the variables only in the
\* cursor, and only after the range over a successful page with
\* hasNextPage = true (the page size does not follow the shrinking budget).
C16_OnlyCursorChanges ==
    /\ [](\A n \in 1 .. Len(calls) :
             [calls[n] EXCEPT !.cursor = NilPtr] = InitialVariables(limit))
    /\ [][ /\ [variables' EXCEPT !.cursor = NilPtr] =
                 [variables EXCEPT !.cursor = NilPtr]
           /\ (variables' # variables) =>
                 /\ pc = "range"
                 /\ idx > Len(query.nodes)
                 /\ query.hasNextPage
                 /\ Len(responses) >= 1 => responses[Len(responses)].ok
                 /\ variables'.cursor = PtrTo(query.endCursor)
         ]_vars

C16_Witness ==
    /\ Len(calls) = 2
    /\ ~IsNil(limit)
    /\ Deref(limit) = 2
    /\ ~cancelled
    /\ rowsRemaining = 1
    /\ calls[1].pageSize = 2
    /\ calls[2].pageSize = 2
    /\ calls[2].cursor = PtrTo("c1")
    /\ calls[2].issueNumber = calls[1].issueNumber

\* ------------------------------------------- invocations side by side
\* One invocation of the fetch as a record of its locals and of what it has
\* done, so that several invocations can be put side by side.  Run* are the
\* steps of lines 86-109 on such a record.

\* Remote calls recorded for one invocation that runs beside another.
RunMaxCalls == 2
\* Nodes in one page returned to such an invocation.
RunMaxPageLen == 1

\* The issues of the two requests.
Reqs == {1, 2}

\* The comments of an issue, as the remote API holds them.
IssueRecords(issue) == {<<issue, "comment">>}

\* The query struct (lines 64-75) with its RateLimit and TotalCount.
RunPages(issue, diags) ==
    {[nodes |-> ns, hasNextPage |-> h, endCursor |-> c,
      totalCount |-> d.totalCount, rateLimit |-> d.rateLimit] :
        ns \in SeqsUpTo(IssueRecords(issue), RunMaxPageLen),
        h \in BOOLEAN, c \in Cursors, d \in diags}

\* The diagnostics of a response when they play no part.
NoDiagnostics == {[totalCount |-> 0, rateLimit |-> 0]}

ZeroRunQuery ==
    [nodes |-> <<>>, hasNextPage |-> FALSE, endCursor |-> "",
     totalCount |-> 0, rateLimit |-> 0]

\* The key columns of the request for an issue.
QualsOf(issue) == [Quals EXCEPT !.number = issue]

\* Lines 57-85: the invocation at the head of the loop.
RunInit(quals, lim) ==
    [pc |-> "query",
     variables |-> VariablesFor(quals, lim),
     query |-> ZeroRunQuery,
     idx |-> 1,
     rowsRemaining |-> InitialRowsRemaining(lim),
     cancelled |-> FALSE,
     ret |-> "pending",
     calls |-> <<>>,
     responses |-> <<>>,
     streamed |-> <<>>,
     log |-> <<>>]

\* d.RowsRemaining(ctx) of an invocation.
RunRowsRemaining(s) == IF s.cancelled THEN 0 ELSE s.rowsRemaining

\* Lines 87-89, err = nil: the call returns page p; line 88 logs RateLimit.
RunQueryOk(s, p) ==
    [s EXCEPT !.query = p,
              !.idx = 1,
              !.pc = "range",
              !.calls = Append(@, s.variables),
              !.responses = Append(@, [ok |-> TRUE, page |-> p, err |-> "nil"]),
              !.log = Append(@, p.rateLimit)]

\* Lines 87-92, err != nil: the call fails with e, having left rate in
\* query.RateLimit; line 88 logs it and line 91 returns the error.
RunQueryErr(s, e, rate) ==
    [s EXCEPT !.query.rateLimit = rate,
              !.ret = ErrorResult(e),
              !.pc = "done",
              !.calls = Append(@, s.variables),
              !.responses = Append(@, [ok |-> FALSE,
                                       page |-> [ZeroRunQuery EXCEPT !.rateLimit = rate],
                                       err |-> e]),
              !.log = Append(@, rate)]

\* Lines 94-95.
RunStreamItem(s) ==
    [s EXCEPT !.streamed = Append(@, EmittedItem(s.query, s.idx)),
              !.rowsRemaining = AfterStream(@),
              !.pc = "check"]

\* Lines 98-100.
RunCheckRows(s) ==
    IF ShouldStop(RunRowsRemaining(s))
    THEN [s EXCEPT !.ret = "nil", !.pc = "done"]
    ELSE [s EXCEPT !.idx = @ + 1, !.pc = "range"]

\* Mutant: the loop also ends when totalCount Records have been streamed.
RunPageInfoByTotalCount(s) ==
    IF LoopEnds(s.query) \/ Len(s.streamed) >= s.query.totalCount
    THEN [s EXCEPT !.ret = "nil", !.pc = "done"]
    ELSE [s EXCEPT !.variables.cursor = NextCursor(s.variables, s.query),
                   !.pc = "query"]

\* Lines 103-109.
RunPageInfo(s) ==
    IF LoopEnds(s.query)
    THEN [s EXCEPT !.ret = "nil", !.pc = "done"]
    ELSE [s EXCEPT !.variables.cursor = NextCursor(s.variables, s.query),
                   !.pc = "query"]

\* The step of an invocation that is not a remote call.
RunLocal(s) ==
    CASE s.pc = "range" /\ s.idx <= Len(s.query.nodes) -> RunStreamItem(s)
      [] s.pc = "range" /\ s.idx > Len(s.query.nodes) -> RunPageInfo(s)
      [] s.pc = "check" -> RunCheckRows(s)
      [] OTHER -> s

\* The single-request variables while invocations run side by side.
SoloIdle ==
    /\ limit = NilPtr
    /\ variables = InitialVariables(limit)
    /\ query = ZeroQuery
    /\ idx = 1
    /\ rowsRemaining = InitialRowsRemaining(limit)
    /\ cancelled = FALSE
    /\ pc = "query"
    /\ ret = "pending"
    /\ reason = "none"
    /\ trace = FALSE
    /\ calls = <<>>
    /\ responses = <<>>
    /\ streamed = <<>>

soloVars == <<pc, limit, variables, query, idx, rowsRemaining, cancelled, ret,
              reason, trace, calls, responses, streamed>>

\* Mutant: the query struct is one package-level variable of all invocations.
PublishSharedQuery(rs, i, t) ==
    [j \in DOMAIN rs |-> IF j = i THEN t ELSE [rs[j] EXCEPT !.query = t.query]]

\* Lines 57-85: query, variables and the loop state are locals of the
\* invocation, so its step replaces its own state only.
Publish(rs, i, t) == [rs EXCEPT ![i] = t]

\* Row limits of the requests that run side by side.
RunLimits == {NilPtr, PtrTo(1)}

\* Two requests for different issues, each at the head of its loop: the
\* first with a row limit of one, the second without a limit.
ConcInit ==
    /\ SoloIdle
    /\ reqs = [i \in Reqs |->
                 RunInit(QualsOf(i), IF i = 1 THEN PtrTo(1) ELSE NilPtr)]

\* The pages the remote API returns for the variables of a call.
PagesFor(v) == RunPages(v.issueNumber, NoDiagnostics)

ConcQueryOk(i, p) ==
    /\ reqs[i].pc = "query"
    /\ Len(reqs[i].calls) < RunMaxCalls
    /\ p \in PagesFor(reqs[i].variables)
    /\ reqs' = Publish(reqs, i, RunQueryOk(reqs[i], p))
    /\ UNCHANGED soloVars

ConcQueryErr(i, e) ==
    /\ reqs[i].pc = "query"
    /\ Len(reqs[i].calls) < RunMaxCalls
    /\ reqs' = Publish(reqs, i, RunQueryErr(reqs[i], e, 0))
    /\ UNCHANGED soloVars

ConcStreamItem(i) ==
    /\ reqs[i].pc = "range"
    /\ reqs[i].idx <= Len(reqs[i].query.nodes)
    /\ reqs' = Publish(reqs, i, RunStreamItem(reqs[i]))
    /\ UNCHANGED soloVars

ConcCheckRows(i) ==
    /\ reqs[i].pc = "check"
    /\ reqs' = Publish(reqs, i, RunCheckRows(reqs[i]))
    /\ UNCHANGED soloVars

ConcPageInfo(i) ==
    /\ reqs[i].pc = "range"
    /\ reqs[i].idx > Len(reqs[i].query.nodes)
    /\ reqs' = Publish(reqs, i, RunPageInfo(reqs[i]))
    /\ UNCHANGED soloVars

ConcNext ==
    \E i \in Reqs :
        \/ \E p \in UNION {RunPages(k, NoDiagnostics) : k \in Reqs} : ConcQueryOk(i, p)
        \/ \E e \in Errors : ConcQueryErr(i, e)
        \/ ConcStreamItem(i)
        \/ ConcCheckRows(i)
        \/ ConcPageInfo(i)

ConcSpec == ConcInit /\ [][ConcNext]_vars

\* The states a lone invocation can step to from s.
SoloSuccessors(s) ==
    IF s.pc = "query"
    THEN IF Len(s.calls) < RunMaxCalls
         THEN {RunQueryOk(s, p) : p \in PagesFor(s.variables)}
                  \cup {RunQueryErr(s, e, 0) : e \in Errors}
         ELSE {}
    ELSE IF s.pc = "done" THEN {} ELSE {RunLocal(s)}

\* C13: two requests for different issues that run side by side do not
\* interfere.  Under every interleaving each step is a step one request
\* could take alone from its own state and leaves the other request as it
\* is; every call of a request carries its own issue number and the cursor
\* chained from its own pages; and the Records passed to its consumer are a
\* prefix of its own pages' nodes, none of them fetched for the other issue.
C13_RequestsDoNotInterfere ==
    /\ [](\A i \in Reqs :
            /\ \A n \in 1 .. Len(reqs[i].calls) :
                  /\ reqs[i].calls[n].issueNumber = i
                  /\ reqs[i].calls[n].cursor =
                        IF n = 1 THEN NilPtr
                        ELSE PtrTo(reqs[i].responses[n - 1].page.endCursor)
            /\ \A n \in 1 .. Len(reqs[i].streamed) : reqs[i].streamed[n][1] = i
            /\ IsPrefix(reqs[i].streamed, ConcatNodes(reqs[i].responses)))
    /\ [][ \E i \in Reqs :
              /\ reqs'[i] \in SoloSuccessors(reqs[i])
              /\ \A j \in Reqs \ {i} : reqs'[j] = reqs[j]
         ]_vars

C13_Witness ==
    /\ DOMAIN reqs = Reqs
    /\ reqs[1].pc = "check"
    /\ reqs[2].pc = "check"
    /\ Len(reqs[1].calls) = 2
    /\ Len(reqs[2].calls) = 2
    /\ reqs[1].streamed = << <<1, "comment">> >>
    /\ reqs[2].streamed = << <<2, "comment">>, <<2, "comment">> >>
    /\ reqs[1].variables.cursor # reqs[2].variables.cursor

\* ------------------------------------- two runs of the same request
\* The same request run twice against remote responses that agree in
\* everything but RateLimit and TotalCount; the two runs step together.

\* TotalCount and RateLimit as the remote API may report them.
Diagnostics == {[totalCount |-> 0, rateLimit |-> 0],
                [totalCount |-> 3, rateLimit |-> 5000]}

DiagPages == RunPages(1, Diagnostics)

\* Two pages that differ at most in rateLimit and totalCount.
SameButDiagnostics(p1, p2) ==
    /\ p1.nodes = p2.nodes
    /\ p1.hasNextPage = p2.hasNextPage
    /\ p1.endCursor = p2.endCursor

PairInit ==
    /\ SoloIdle
    /\ \E l \in RunLimits : reqs = [i \in Reqs |-> RunInit(QualsOf(1), l)]

PairCanCall ==
    /\ \E i \in Reqs : reqs[i].pc = "query"
    /\ \A i \in Reqs : Len(reqs[i].calls) < RunMaxCalls

\* Both runs get their page: the same but for the diagnostics.
PairQueryOk(p1, p2) ==
    /\ PairCanCall
    /\ SameButDiagnostics(p1, p2)
    /\ reqs' = [i \in Reqs |->
                  IF reqs[i].pc = "query"
                  THEN RunQueryOk(reqs[i], IF i = 1 THEN p1 ELSE p2)
                  ELSE RunLocal(reqs[i])]
    /\ UNCHANGED soloVars

\* Both runs get the same error, with their own rate-limit information.
PairQueryErr(e, r1, r2) ==
    /\ PairCanCall
    /\ reqs' = [i \in Reqs |->
                  IF reqs[i].pc = "query"
                  THEN RunQueryErr(reqs[i], e, IF i = 1 THEN r1 ELSE r2)
                  ELSE RunLocal(reqs[i])]
    /\ UNCHANGED soloVars

\* Both runs take their next step inside the loop.
PairLocal ==
    /\ \A i \in Reqs : reqs[i].pc # "query"
    /\ \E i \in Reqs : reqs[i].pc # "done"
    /\ reqs' = [i \in Reqs |-> RunLocal(reqs[i])]
    /\ UNCHANGED soloVars

\* The context of both runs is cancelled at the same point.
PairCancel ==
    /\ \E i \in Reqs : reqs[i].pc # "done"
    /\ \A i \in Reqs : ~reqs[i].cancelled
    /\ reqs' = [i \in Reqs |-> [reqs[i] EXCEPT !.cancelled = TRUE]]
    /\ UNCHANGED soloVars

PairNext ==
    \/ \E p1 \in DiagPages, d \in Diagnostics :
          PairQueryOk(p1, [p1 EXCEPT !.totalCount = d.totalCount,
                                     !.rateLimit = d.rateLimit])
    \/ \E e \in Errors, d1 \in Diagnostics, d2 \in Diagnostics :
          PairQueryErr(e, d1.rateLimit, d2.rateLimit)
    \/ PairLocal
    \/ PairCancel

PairSpec == PairInit /\ [][PairNext]_vars

\* What a run does, as its caller, its consumer and the remote API see it.
Observable(s) ==
    [pc |-> s.pc, calls |-> s.calls, cursor |-> s.variables.cursor,
     streamed |-> s.streamed, ret |-> s.ret]

\* C14: two runs whose remote responses differ only in rateLimit and
\* totalCount are at the same place at every step, have issued the same
\* remote calls with the same cursors, have emitted the same Records and
\* return the same result; the only trace of the diagnostics is the log,
\* which gets the rate-limit information of every call, failed or not.
C14_DiagnosticsDoNotSteer ==
    /\ Observable(reqs[1]) = Observable(reqs[2])
    /\ \A i \in Reqs :
          /\ Len(reqs[i].log) = Len(reqs[i].calls)
          /\ \A n \in 1 .. Len(reqs[i].log) :
                reqs[i].log[n] = reqs[i].responses[n].page.rateLimit

C14_Witness ==
    /\ DOMAIN reqs = Reqs
    /\ reqs[1].pc = "done"
    /\ reqs[2].pc = "done"
    /\ Len(reqs[1].calls) = 2
    /\ reqs[1].responses[1].page.totalCount # reqs[2].responses[1].page.totalCount
    /\ reqs[1].log[1] # reqs[2].log[1]
    /\ reqs[1].log[2] # reqs[2].log[2]
    /\ ~reqs[1].responses[2].ok
    /\ Len(reqs[1].streamed) = 1

====
